---- MODULE Spec2Model ----
(***************************************************************************)
(* Model of the ImpressionV2 feature alignment and caching pipeline of     *)
(* src/datasets.py: the ground-truth loader, the three cached modality     *)
(* loaders, audio normalisation, the split assembler, the dataset-set      *)
(* loader and the resampling transform.                                    *)
(*                                                                         *)
(* Arrays are sequences (axis 0) of sequences (the time axis) of scalars;  *)
(* the feature axis is collapsed to one scalar per time step, since no     *)
(* operation of the pipeline pads, selects or reorders along it.           *)
(***************************************************************************)
EXTENDS Integers, Sequences, FiniteSets, TLC

VARIABLES
    gtStore,    \* the label stores annotation_*.pkl: split -> [targets, samples]
    rawLen,     \* modality -> <<split, video>> -> time steps of the raw feature file
    files,      \* the cache directory: <<split, modality>> -> [exists, data]
    writes,     \* history: <<split, modality>> -> number of times the file was written
    statsOf,    \* history: splits over whose own data np.mean / np.std was evaluated
    ret,        \* the last call of a loader, a split load or a set load: its outcome
                \* and, of a set load, its arguments
    dss,        \* the dataset-set last returned by load_impressionv2_dataset_all
    item,       \* the last __getitem__ / SamplerTransform.__call__: its outcome and,
                \* of a direct call, the transform as the call found it
    tr          \* a SamplerTransform constructed directly (specification SpecSampler)

vars == <<gtStore, rawLen, files, writes, statsOf, ret, dss, item, tr>>

----------------------------------------------------------------------------
(* Bounds.  The sequence lengths and set sizes of the source (1526, 459,   *)
(* 60; 6000, 2000, 2000) are scaled down; every operation of the model is  *)
(* written in terms of these names, as the source is in terms of its       *)
(* literals.                                                               *)

AUDIO_LEN == 4
FACE_LEN == 3
TEXT_LEN == 2
TRAIN_SIZE == 2
EVAL_SIZE == 1

\* calls made of one directly constructed transform
MaxCalls == 2

Splits == {"train", "valid", "test"}
Modalities == {"audio", "face", "text"}

SET_SIZE == [train |-> TRAIN_SIZE, valid |-> EVAL_SIZE, test |-> EVAL_SIZE]

FULL_LEN == [audio |-> AUDIO_LEN, face |-> FACE_LEN, text |-> TEXT_LEN]

None == -1

----------------------------------------------------------------------------
(* Strings that are sorted or split are sequences of character codes,     *)
(* ordered as '-' < '.' < letters, as in ASCII.                            *)

Ch == [dash |-> 1, dot |-> 2, a |-> 3, m |-> 4]

\* the one element of a singleton; {f(x) : x \in {e}} evaluates e and f once
One(S) == CHOOSE r \in S : TRUE

Min(a, b) == IF a <= b THEN a ELSE b

\* Python's < on str
LexLess(a, b) ==
    \E i \in 1..(Min(Len(a), Len(b)) + 1) :
        /\ \A j \in 1..(i - 1) : a[j] = b[j]
        /\ IF i > Len(a) THEN i <= Len(b)
           ELSE i <= Len(b) /\ a[i] < b[i]

\* sorted(...) of a collection of distinct strings
sorted(S) ==
    [i \in 1..Cardinality(S) |->
        CHOOSE e \in S : Cardinality({f \in S : LexLess(f, e)}) = i - 1]

\* Path(sample_name).stem: the name without its last suffix
Stem(name) ==
    LET dots == {p \in 1..Len(name) : name[p] = Ch.dot}
        last == CHOOSE p \in dots : \A q \in dots : q <= p
    IN  IF dots = {} THEN name
        ELSE IF last = 1 \/ last = Len(name) THEN name
        ELSE SubSeq(name, 1, last - 1)

\* the i-th video file name of a label store: "a.m", "a-a.m", "a-a-a.m", ...
RECURSIVE StemOf(_)
StemOf(i) == IF i <= 1 THEN <<Ch.a>> ELSE StemOf(i - 1) \o <<Ch.dash, Ch.a>>

SampleName(i) == StemOf(i) \o <<Ch.dot, Ch.m>>

ModNo(m) == CASE m = "audio" -> 1 [] m = "face" -> 2 [] OTHER -> 3

SplitNo(split) == CASE split = "train" -> 1 [] split = "valid" -> 2 [] OTHER -> 3

----------------------------------------------------------------------------
(* Ground truth.                                                           *)

\* gt_dict[target_name][sample_name]: the stored scalar
GtValue(split, target, sample) == <<split, target, sample>>

\* target_names.pop(-2)
Pop2(names) ==
    [i \in 1..(Len(names) - 1) |->
        IF i < Len(names) - 1 THEN names[i] ELSE names[i + 1]]

\* the dict built by _get_gt: sample key -> label vector; a later sample name
\* with the same stem overwrites an earlier one
GtDict(split, target_names, sample_names) ==
    LET keys == {Stem(sample_names[i]) : i \in 1..Len(sample_names)}
        lastOf(k) == CHOOSE i \in 1..Len(sample_names) :
                        /\ Stem(sample_names[i]) = k
                        /\ \A j \in 1..Len(sample_names) :
                              Stem(sample_names[j]) = k => j <= i
    IN  [k \in keys |->
            [t \in 1..Len(target_names) |->
                GtValue(split, target_names[t], sample_names[lastOf(k)])]]

\* _get_gt: [ok, gt, target_names]; gt maps a sample key to its label vector
_get_gt(split) ==
    IF Len(gtStore[split].targets) < 2
    THEN [ok |-> FALSE, gt |-> <<>>, target_names |-> <<>>]
    ELSE One({[ok |-> TRUE, gt |-> GtDict(split, target_names, sample_names),
               target_names |-> target_names] :
                 target_names \in {Pop2(gtStore[split].targets)},
                 sample_names \in {sorted(gtStore[split].samples)}})

----------------------------------------------------------------------------
(* Raw per-video feature files (read-only inputs).                         *)

\* the scalar of modality m of video `video` of `split` at time step t: never 0,
\* so that padding is told from data, and different for every (m, split, video, t)
RawValue(m, split, video, t) ==
    1000 * ModNo(m) + 100 * SplitNo(split) + 10 * Len(video) + t

RawSeq(m, split, video) ==
    [t \in 1..rawLen[m][<<split, video>>] |-> RawValue(m, split, video, t)]

----------------------------------------------------------------------------
(* numpy helpers.                                                          *)

RECURSIVE Flatten(_)
Flatten(list) == IF list = <<>> THEN <<>> ELSE Head(list) \o Flatten(Tail(list))

RECURSIVE SumSeq(_)
SumSeq(q) == IF q = <<>> THEN 0 ELSE Head(q) + SumSeq(Tail(q))

\* np.pad(a, [(0, n), (0, 0)]): n zero rows after the data (n >= 0)
Pad(a, n) == a \o [i \in 1..n |-> 0]

\* np.stack(list): a new leading axis; the arrays must be there and agree in shape
stack(list) ==
    IF list = <<>> \/ \E i, j \in DOMAIN list : Len(list[i]) # Len(list[j])
    THEN [ok |-> FALSE, val |-> <<>>]
    ELSE [ok |-> TRUE, val |-> list]

\* np.concatenate(list): joins along the existing leading axis; the arrays must
\* be there and agree in every other axis
concatenate(list) ==
    IF list = <<>>
       \/ \E i, j \in DOMAIN list :
             \E x \in DOMAIN list[i], y \in DOMAIN list[j] :
                Len(list[i][x]) # Len(list[j][y])
    THEN [ok |-> FALSE, val |-> <<>>]
    ELSE [ok |-> TRUE, val |-> Flatten(list)]

\* np.mean(audio_np, (0, 1)), as the fraction <<sum, count>>
Mean(arr) == <<SumSeq(Flatten(arr)), Len(Flatten(arr))>>

\* np.std(audio_np, (0, 1)): the root of the population variance, kept as the
\* variance's fraction <<n * sum(x^2) - sum(x)^2, n^2>>
Std(arr) ==
    LET flat == Flatten(arr)
        n == Len(flat)
        s == SumSeq(flat)
        sq == SumSeq([i \in DOMAIN flat |-> flat[i] * flat[i]])
    IN  <<n * sq - s * s, n * n>>

\* (audio_np - mean) / std, element by element, kept as the unevaluated term
Normalize(arr, mean, std) ==
    [i \in DOMAIN arr |->
        [t \in DOMAIN arr[i] |-> [x |-> arr[i][t], mean |-> mean, std |-> std]]]

\* audio_norm.astype(np.float32): every element rounded to single precision
astype_float32(arr) ==
    [i \in DOMAIN arr |-> [t \in DOMAIN arr[i] |-> [f32 |-> arr[i][t]]]]

----------------------------------------------------------------------------
(* The cache directory.                                                    *)

FileKeys == Splits \X Modalities

NoData(m) == IF m = "audio" THEN [audio_norm |-> <<>>] ELSE <<>>

NoFiles == [k \in FileKeys |-> [exists |-> FALSE, data |-> NoData(k[2])]]

\* open(file, "wb") + pickle.dump / np.save
WriteFile(fs, k, data) == [fs EXCEPT ![k] = [exists |-> TRUE, data |-> data]]

\* a call ended by an exception; err names the exception where a property tells
\* it from the others
Failed(fs) ==
    [ok |-> FALSE, fs |-> fs, val |-> <<>>, created |-> FALSE, wrote |-> <<>>,
     stats |-> {}, err |-> "Error"]

\* open(train_audio.pkl) finds no file / gt_dict["mean"], gt_dict["std"] finds no key
MissingTrainStatistics == {"FileNotFoundError: train_audio.pkl", "KeyError: mean"}

----------------------------------------------------------------------------
(* lld audio.                                                              *)

_create_lld_audio(split, video_dirs) ==
    LET audio_list == [i \in DOMAIN video_dirs |-> RawSeq("audio", split, video_dirs[i])]
    IN  IF \E i \in DOMAIN audio_list : AUDIO_LEN - Len(audio_list[i]) < 0
        THEN [ok |-> FALSE, val |-> <<>>]
        ELSE stack([i \in DOMAIN audio_list |->
                      Pad(audio_list[i], AUDIO_LEN - Len(audio_list[i]))])

\* Variant: every split normalises with the mean and std of its own data.
_normalize_lld_audio_own(fs, audio_np, file, split) ==
    One({[ok |-> TRUE,
          fs |-> WriteFile(fs, file,
                    IF split = "train"
                    THEN [audio_norm |-> audio_norm, mean |-> Mean(audio_np),
                          std |-> Std(audio_np)]
                    ELSE [audio_norm |-> audio_norm]),
          val |-> audio_norm, created |-> TRUE, wrote |-> <<file>>,
          stats |-> {split}] :
            audio_norm \in {Normalize(audio_np, Mean(audio_np), Std(audio_np))}})

\* Variant: without the train artifact, validation and test fall back to the
\* statistics of their own data.
_normalize_lld_audio_fallback(fs, audio_np, file, split) ==
    IF split # "train" /\ fs[<<"train", "audio">>].exists
    THEN One({[ok |-> TRUE,
               fs |-> WriteFile(fs, file, [audio_norm |-> audio_norm]),
               val |-> audio_norm, created |-> TRUE, wrote |-> <<file>>,
               stats |-> {}] :
                 audio_norm \in {Normalize(audio_np, fs[<<"train", "audio">>].data.mean,
                                           fs[<<"train", "audio">>].data.std)}})
    ELSE _normalize_lld_audio_own(fs, audio_np, file, split)

\* Variant: the train artifact is saved without the mean and the std.
_normalize_lld_audio_nostats(fs, audio_np, file, split) ==
    IF split = "train"
    THEN One({[ok |-> TRUE,
               fs |-> WriteFile(fs, file, [audio_norm |-> audio_norm]),
               val |-> audio_norm, created |-> TRUE, wrote |-> <<file>>,
               stats |-> {split}] :
                 audio_norm \in {Normalize(audio_np, Mean(audio_np), Std(audio_np))}})
    ELSE LET train == fs[<<"train", "audio">>]
         IN  IF ~train.exists
             THEN [Failed(fs) EXCEPT !.err = "FileNotFoundError: train_audio.pkl"]
             ELSE IF ~({"mean", "std"} \subseteq DOMAIN train.data)
             THEN [Failed(fs) EXCEPT !.err = "KeyError: mean"]
             ELSE One({[ok |-> TRUE,
                        fs |-> WriteFile(fs, file, [audio_norm |-> audio_norm]),
                        val |-> audio_norm, created |-> TRUE, wrote |-> <<file>>,
                        stats |-> {}] :
                          audio_norm \in {Normalize(audio_np, train.data.mean,
                                                    train.data.std)}})

_normalize_lld_audio(fs, audio_np, file, split) ==
    IF split = "train"
    THEN One({One({[ok |-> TRUE,
                    fs |-> WriteFile(fs, file,
                              [audio_norm |-> audio_norm, mean |-> mean, std |-> std]),
                    val |-> audio_norm, created |-> TRUE, wrote |-> <<file>>,
                    stats |-> {split}] :
                      audio_norm \in {Normalize(audio_np, mean, std)}}) :
                 mean \in {Mean(audio_np)}, std \in {Std(audio_np)}})
    ELSE LET train == fs[<<"train", "audio">>]
         IN  IF ~train.exists
             THEN [Failed(fs) EXCEPT !.err = "FileNotFoundError: train_audio.pkl"]
             ELSE IF ~({"mean", "std"} \subseteq DOMAIN train.data)
             THEN [Failed(fs) EXCEPT !.err = "KeyError: mean"]
             ELSE One({[ok |-> TRUE,
                        fs |-> WriteFile(fs, file, [audio_norm |-> audio_norm]),
                        val |-> audio_norm, created |-> TRUE, wrote |-> <<file>>,
                        stats |-> {}] :
                          audio_norm \in {Normalize(audio_np, train.data.mean,
                                                    train.data.std)}})

_get_lld_audio(fs, split, video_dirs) ==
    LET file == <<split, "audio">>
    IN  IF ~fs[file].exists
        THEN One({IF ~audio_np.ok THEN Failed(fs)
                  ELSE One({[n EXCEPT !.val = IF n.ok THEN astype_float32(n.val)
                                              ELSE <<>>] :
                              n \in {One({_normalize_lld_audio(fs, np, file, split) :
                                         np \in {audio_np.val}})}}) :
                     audio_np \in {_create_lld_audio(split, video_dirs)}})
        ELSE [ok |-> TRUE, fs |-> fs,
              val |-> astype_float32(fs[file].data.audio_norm),
              created |-> FALSE, wrote |-> <<>>, stats |-> {}]

----------------------------------------------------------------------------
(* bert text.  A per-video file holds one array of shape (1, l, D).        *)

\* Variant: the per-video arrays are joined in reverse order.
_create_bert_text_reversed(split, videos) ==
    concatenate([i \in DOMAIN videos |->
                    <<RawSeq("text", split, videos[Len(videos) + 1 - i])>>])

_create_bert_text(split, videos) ==
    concatenate([i \in DOMAIN videos |-> <<RawSeq("text", split, videos[i])>>])

\* Variant: the computed array is returned without being saved.
_get_bert_text_nosave(fs, split, videos) ==
    IF ~fs[<<split, "text">>].exists
    THEN One({IF ~text_np.ok THEN Failed(fs)
              ELSE [ok |-> TRUE, fs |-> fs, val |-> text_np.val, created |-> TRUE,
                    wrote |-> <<>>, stats |-> {}] :
                 text_np \in {_create_bert_text(split, videos)}})
    ELSE [ok |-> TRUE, fs |-> fs, val |-> fs[<<split, "text">>].data,
          created |-> FALSE, wrote |-> <<>>, stats |-> {}]

_get_bert_text(fs, split, videos) ==
    LET file == <<split, "text">>
    IN  IF ~fs[file].exists
        THEN One({IF ~text_np.ok THEN Failed(fs)
                  ELSE [ok |-> TRUE, fs |-> WriteFile(fs, file, text_np.val),
                        val |-> text_np.val, created |-> TRUE, wrote |-> <<file>>,
                        stats |-> {}] :
                     text_np \in {_create_bert_text(split, videos)}})
        ELSE [ok |-> TRUE, fs |-> fs, val |-> fs[file].data,
              created |-> FALSE, wrote |-> <<>>, stats |-> {}]

----------------------------------------------------------------------------
(* resnet18 face.                                                          *)

_creat_resnet18_face(split, video_dirs) ==
    LET face_list == [i \in DOMAIN video_dirs |-> RawSeq("face", split, video_dirs[i])]
    IN  IF \E i \in DOMAIN face_list : FACE_LEN - Len(face_list[i]) < 0
        THEN [ok |-> FALSE, val |-> <<>>]
        ELSE stack([i \in DOMAIN face_list |->
                      Pad(face_list[i], FACE_LEN - Len(face_list[i]))])

\* Variant: the array is computed and saved whether or not the file exists.
_get_resnet18_face_always(fs, split, video_dirs) ==
    One({IF ~face_np.ok THEN Failed(fs)
         ELSE [ok |-> TRUE, fs |-> WriteFile(fs, <<split, "face">>, face_np.val),
               val |-> face_np.val, created |-> TRUE, wrote |-> <<<<split, "face">>>>,
               stats |-> {}] :
            face_np \in {_creat_resnet18_face(split, video_dirs)}})

_get_resnet18_face(fs, split, video_dirs) ==
    LET file == <<split, "face">>
    IN  IF ~fs[file].exists
        THEN One({IF ~face_np.ok THEN Failed(fs)
                  ELSE [ok |-> TRUE, fs |-> WriteFile(fs, file, face_np.val),
                        val |-> face_np.val, created |-> TRUE, wrote |-> <<file>>,
                        stats |-> {}] :
                     face_np \in {_creat_resnet18_face(split, video_dirs)}})
        ELSE [ok |-> TRUE, fs |-> fs, val |-> fs[file].data,
              created |-> FALSE, wrote |-> <<>>, stats |-> {}]

----------------------------------------------------------------------------
(* The resampling transform.                                               *)

\* SamplerTransform.__init__
SamplerTransform(srA, srF, srT, is_random) ==
    [srA |-> srA, srF |-> srF, srT |-> srT, is_random |-> is_random]

\* np.linspace(0, stop, num, dtype=int): num points from 0 to stop, the end
\* point included, each cut to its integer part by the conversion to int
linspace(stop, num) ==
    [k \in 1..num |-> IF num = 1 THEN 0 ELSE ((k - 1) * stop) \div (num - 1)]

\* ndarray.sort(): ascending, in place
sort(q) ==
    [i \in DOMAIN q |->
        CHOOSE v \in {q[j] : j \in DOMAIN q} :
            Cardinality({j \in DOMAIN q : q[j] < v}) < i
            /\ i <= Cardinality({j \in DOMAIN q : q[j] <= v})]

\* np.random.choice(a, size, replace=False): the arrays it can return, each
\* `size` different elements of range(a) in any order; none (ValueError) when
\* a <= 0 or size > a
random_choice(a, size) ==
    IF a <= 0 \/ size > a THEN {}
    ELSE {q \in [1..size -> 0..(a - 1)] :
             \A i, j \in 1..size : i # j => q[i] # q[j]}

\* audio[a_idx, ]
SelectRows(arr, idx) == [k \in DOMAIN idx |-> arr[idx[k] + 1]]

NoIdx == [a |-> <<>>, f |-> <<>>, t |-> <<>>]

NoSample == [audio |-> <<>>, face |-> <<>>, text |-> <<>>, label |-> <<>>]

\* the three index arrays the selection policy can produce; none when
\* np.random.choice raises
SamplerIndices(self, al, fl, tl) ==
    IF ~self.is_random
    THEN {[a |-> linspace(al - 1, self.srA),
           f |-> linspace(fl - 1, self.srF),
           t |-> linspace(tl - 1, self.srT)]}
    ELSE {[a |-> sort(qa), f |-> sort(qf), t |-> sort(qt)] :
             qa \in random_choice(al - 1, self.srA),
             qf \in random_choice(fl - 1, self.srF),
             qt \in random_choice(tl - 1, self.srT)}

\* Variant: the text target length is not checked.
LengthsValid_noText(self, al, fl, tl) == self.srA <= al /\ self.srF <= fl

\* assert self.srA <= al; assert self.srF <= fl; assert self.srT <= tl
LengthsValid(self, al, fl, tl) == self.srA <= al /\ self.srF <= fl /\ self.srT <= tl

\* Variant: the face and text targets are fixed, the audio target is left unset.
FixTargets_noAudio(self0, al, fl, tl) ==
    [self0 EXCEPT !.srF = IF @ = None THEN fl ELSE @,
                  !.srT = IF @ = None THEN tl ELSE @]

\* if self.srA is None: self.srA = al, and the same for srF and srT
FixTargets(self0, al, fl, tl) ==
    [self0 EXCEPT !.srA = IF @ = None THEN al ELSE @,
                  !.srF = IF @ = None THEN fl ELSE @,
                  !.srT = IF @ = None THEN tl ELSE @]

\* SamplerTransform.__call__: the outcomes [ok, err, self, out, idx, drew] a call
\* on sample x can have; self is the transform as the call leaves it, err the
\* exception that ended it
SamplerCall(self0, x) ==
    LET al == Len(x.audio)
        fl == Len(x.face)
        tl == Len(x.text)
        self == FixTargets(self0, al, fl, tl)
        fail(s, err, drew) ==
            [ok |-> FALSE, err |-> err, self |-> s, out |-> NoSample, idx |-> NoIdx,
             drew |-> drew]
    IN  IF al # AUDIO_LEN \/ fl # FACE_LEN \/ tl # TEXT_LEN
        THEN {fail(self0, "AssertionError: shape", FALSE)}
        ELSE IF ~LengthsValid(self, al, fl, tl)
        THEN {fail(self, "AssertionError: target length", FALSE)}
        ELSE IF SamplerIndices(self, al, fl, tl) = {}
        THEN {fail(self, "ValueError", TRUE)}
        ELSE {[ok |-> TRUE, err |-> "", self |-> self,
               out |-> [audio |-> SelectRows(x.audio, i.a),
                        face |-> SelectRows(x.face, i.f),
                        text |-> SelectRows(x.text, i.t),
                        label |-> x.label],
               idx |-> i, drew |-> self.is_random] :
                  i \in SamplerIndices(self, al, fl, tl)}

----------------------------------------------------------------------------
(* Split assembler and dataset-set loader.                                 *)

\* th.utils.data.TensorDataset(...): the tensors must agree in their first size
TensorDataset(audio_th, face_th, text_th, label_th) ==
    IF Len(audio_th) = Len(face_th) /\ Len(audio_th) = Len(text_th)
       /\ Len(audio_th) = Len(label_th)
    THEN [ok |-> TRUE,
          val |-> [audio |-> audio_th, face |-> face_th, text |-> text_th,
                   label |-> label_th]]
    ELSE [ok |-> FALSE, val |-> NoSample]

\* TensorDataset.__getitem__(index), index in 0 .. len - 1
TensorItem(ds, index) ==
    [audio |-> ds.audio[index + 1], face |-> ds.face[index + 1],
     text |-> ds.text[index + 1], label |-> ds.label[index + 1]]

SplitFailed(fs, wrote, stats, created) ==
    [ok |-> FALSE, fs |-> fs, ds |-> NoSample, target_names |-> <<>>,
     wrote |-> wrote, stats |-> stats, created |-> created, err |-> "Error"]

\* the split loader's outcome, given the outcome g of _get_gt, the sorted sample
\* keys and the outcomes a, f, t of the three loaders called in this order, each
\* on the cache directory the one before it left; a step after a failed one has
\* not run, and its outcome is not looked at
SplitOutcome(fs, split, audio_emb, face_emb, text_emb, g, videos, a, f, t) ==
    LET cr(r, m) == IF r.created THEN {m} ELSE {}
    IN  IF ~g.ok THEN SplitFailed(fs, <<>>, {}, {})
        ELSE IF Len(videos) # SET_SIZE[split] THEN SplitFailed(fs, <<>>, {}, {})
        ELSE IF audio_emb # "lld" THEN SplitFailed(fs, <<>>, {}, {})
        ELSE IF ~a.ok THEN [SplitFailed(a.fs, <<>>, {}, {}) EXCEPT !.err = a.err]
        ELSE IF face_emb # "resnet18"
        THEN SplitFailed(a.fs, a.wrote, a.stats, cr(a, "audio"))
        ELSE IF ~f.ok THEN SplitFailed(f.fs, a.wrote, a.stats, cr(a, "audio"))
        ELSE IF text_emb # "bert" \/ ~t.ok
        THEN SplitFailed(f.fs, a.wrote \o f.wrote, a.stats,
                         cr(a, "audio") \cup cr(f, "face"))
        ELSE One({[ok |-> td.ok, fs |-> t.fs, ds |-> td.val,
                   target_names |-> IF td.ok THEN g.target_names ELSE <<>>,
                   wrote |-> a.wrote \o f.wrote \o t.wrote, stats |-> a.stats,
                   err |-> IF td.ok THEN "" ELSE "Error",
                   created |-> cr(a, "audio") \cup cr(f, "face") \cup cr(t, "text")] :
                     td \in {TensorDataset(a.val, f.val, t.val,
                                [i \in DOMAIN videos |-> g.gt[videos[i]]])}})

load_impressionv2_dataset_split(fs, split, audio_emb, face_emb, text_emb) ==
    One({One({One({One({One({
        SplitOutcome(fs, split, audio_emb, face_emb, text_emb, g, videos, a, f, t) :
            t \in {IF f.ok THEN _get_bert_text(f.fs, split, videos) ELSE Failed(f.fs)}}) :
            f \in {IF a.ok THEN _get_resnet18_face(a.fs, split, videos) ELSE Failed(a.fs)}}) :
            a \in {IF g.ok /\ Len(videos) = SET_SIZE[split]
                   THEN _get_lld_audio(fs, split, videos) ELSE Failed(fs)}}) :
            videos \in {IF g.ok THEN sorted(DOMAIN g.gt) ELSE <<>>}}) :
            g \in {_get_gt(split)}})

\* TensorDatasetWithTransformer(tensor_dataset, transform); a bare TensorDataset
\* is the same record with wrapped = FALSE
Wrapped(ds, transform) ==
    [tensor_dataset |-> ds, wrapped |-> TRUE, transform |-> transform]

Bare(ds) ==
    [tensor_dataset |-> ds, wrapped |-> FALSE,
     transform |-> SamplerTransform(None, None, None, FALSE)]

NoDss == [ok |-> FALSE, sets |-> <<>>, target_names |-> <<>>]

\* Variant: validation and test take the requested randomness flag.
EvalTransform_requested(srA, srF, srT, is_random) ==
    SamplerTransform(srA, srF, srT, is_random)

\* Variant: only the first of the two assertions.
NamesAgree_first(train_target_names, valid_target_names, test_target_names) ==
    train_target_names = valid_target_names

\* the transform of the validation and of the test dataset:
\* SamplerTransform(srA, srF, srT, False)
EvalTransform(srA, srF, srT, is_random) == SamplerTransform(srA, srF, srT, FALSE)

\* assert train_target_names == valid_target_names
\* assert train_target_names == test_target_names
NamesAgree(train_target_names, valid_target_names, test_target_names) ==
    train_target_names = valid_target_names /\ train_target_names = test_target_names

\* the set loader's outcome, given the outcomes of the three split loads, each
\* on the cache directory the one before it left
SetOutcome(srA, srF, srT, is_random, tr_, va, te) ==
    LET train_target_names == tr_.target_names
        test_target_names == va.target_names
        valid_target_names == te.target_names
        wrap == srA # None \/ srF # None \/ srT # None
        train_ds == IF wrap THEN Wrapped(tr_.ds, SamplerTransform(srA, srF, srT, is_random))
                    ELSE Bare(tr_.ds)
        valid_ds == IF wrap THEN Wrapped(va.ds, EvalTransform(srA, srF, srT, is_random))
                    ELSE Bare(va.ds)
        test_ds == IF wrap THEN Wrapped(te.ds, EvalTransform(srA, srF, srT, is_random))
                   ELSE Bare(te.ds)
        failed(r, wrote, stats) ==
            [ok |-> FALSE, fs |-> r.fs, sets |-> <<>>, target_names |-> <<>>,
             wrote |-> wrote, stats |-> stats,
             err |-> IF r.ok THEN "AssertionError" ELSE r.err]
    IN  IF ~tr_.ok THEN failed(tr_, tr_.wrote, tr_.stats)
        ELSE IF ~va.ok THEN failed(va, tr_.wrote \o va.wrote, tr_.stats \cup va.stats)
        ELSE IF ~te.ok
        THEN failed(te, tr_.wrote \o va.wrote \o te.wrote,
                    tr_.stats \cup va.stats \cup te.stats)
        ELSE IF ~NamesAgree(train_target_names, valid_target_names, test_target_names)
        THEN failed(te, tr_.wrote \o va.wrote \o te.wrote,
                    tr_.stats \cup va.stats \cup te.stats)
        ELSE [ok |-> TRUE, fs |-> te.fs, sets |-> <<train_ds, valid_ds, test_ds>>,
              target_names |-> train_target_names,
              wrote |-> tr_.wrote \o va.wrote \o te.wrote,
              stats |-> tr_.stats \cup va.stats \cup te.stats]

load_impressionv2_dataset_all(fs, srA, srF, srT, is_random, audio_emb, face_emb, text_emb) ==
    One({One({One({
        SetOutcome(srA, srF, srT, is_random, tr_, va, te) :
            te \in {IF va.ok
                    THEN load_impressionv2_dataset_split(va.fs, "test", audio_emb,
                                                         face_emb, text_emb)
                    ELSE SplitFailed(va.fs, <<>>, {}, {})}}) :
            va \in {IF tr_.ok
                    THEN load_impressionv2_dataset_split(tr_.fs, "valid", audio_emb,
                                                         face_emb, text_emb)
                    ELSE SplitFailed(tr_.fs, <<>>, {}, {})}}) :
            tr_ \in {load_impressionv2_dataset_split(fs, "train", audio_emb,
                                                     face_emb, text_emb)}})

----------------------------------------------------------------------------
(* Inputs: the label stores and the raw feature files.                     *)

VideoKeys == {<<s, StemOf(i)>> : s \in Splits, i \in 1..(TRAIN_SIZE + 1)}

\* the first video of a split is one step short in audio and face, every other
\* file has the full length
NominalLen(m, key) ==
    IF m # "text" /\ Len(key[2]) = 1 THEN FULL_LEN[m] - 1 ELSE FULL_LEN[m]

LenProfile(m, split, n) ==
    [mm \in Modalities |->
        [k \in VideoKeys |->
            IF mm = m /\ k = <<split, StemOf(1)>> THEN n ELSE NominalLen(mm, k)]]

NominalProfile == [mm \in Modalities |-> [k \in VideoKeys |-> NominalLen(mm, k)]]

\* one train file longer than the modality's length
LenProfiles == {LenProfile(m, "train", FULL_LEN[m] + 1) : m \in Modalities}

\* the validation text file one step short
ShortTextProfile == LenProfile("text", "valid", TEXT_LEN - 1)

TargetLists ==
    {<<"extraversion", "neuroticism", "interview", "openness">>,
     <<"neuroticism", "extraversion", "interview", "openness">>}

NominalTargets == <<"extraversion", "neuroticism", "interview", "openness">>

Samples(n) == {SampleName(i) : i \in 1..n}

NominalGt ==
    [s \in Splits |-> [targets |-> NominalTargets, samples |-> Samples(SET_SIZE[s])]]

GtConfigs ==
    {[s \in Splits |-> [targets |-> t[s], samples |-> Samples(SET_SIZE[s])]] :
        t \in [Splits -> TargetLists]}
    \cup {[NominalGt EXCEPT ![s].samples = Samples(SET_SIZE[s] + 1)] : s \in Splits}

LenConfigs ==
    {[gt |-> NominalGt, len |-> l] : l \in {NominalProfile} \cup LenProfiles}

GtInputConfigs ==
    {[gt |-> g, len |-> NominalProfile] : g \in GtConfigs}
    \cup {[gt |-> NominalGt, len |-> ShortTextProfile]}

\* the selectors a caller passes: the registered ones, or an unknown face one
Registered == <<"lld", "resnet18", "bert">>

EmbChoices == {Registered, <<"lld", "vgg", "bert">>}

\* the target lengths <<srA, srF, srT>> a caller of the set loader passes
SrTriples == {<<None, None, None>>, <<2, None, None>>, <<None, 2, 1>>, <<2, 2, 1>>}

\* the target lengths a directly constructed transform is given
SrValues(m) == {None} \cup 1..(FULL_LEN[m] + 1)

\* the samples a directly constructed transform is called on
SampleOf(al, fl, tl) ==
    [audio |-> [t \in 1..al |-> 100 + t], face |-> [t \in 1..fl |-> 200 + t],
     text |-> [t \in 1..tl |-> 300 + t], label |-> <<"label">>]

SampleInputs ==
    {SampleOf(AUDIO_LEN, FACE_LEN, TEXT_LEN), SampleOf(AUDIO_LEN - 1, FACE_LEN, TEXT_LEN)}

----------------------------------------------------------------------------
(* State.                                                                  *)

NoRet ==
    [op |-> "none", split |-> "none", ok |-> FALSE, val |-> <<>>, created |-> {},
     wrote |-> <<>>, stats |-> {}, target_names |-> <<>>, args |-> <<>>,
     err |-> ""]

NoItem ==
    [op |-> "none", d |-> 0, index |-> 0, n |-> 0, ok |-> FALSE, err |-> "",
     out |-> NoSample, idx |-> NoIdx, drew |-> FALSE,
     before |-> SamplerTransform(None, None, None, FALSE)]

InitWith(configs) ==
    /\ \E cfg \in configs : gtStore = cfg.gt /\ rawLen = cfg.len
    /\ files = NoFiles
    /\ writes = [k \in FileKeys |-> 0]
    /\ statsOf = {}
    /\ ret = NoRet
    /\ dss = NoDss
    /\ item = NoItem
    /\ tr = SamplerTransform(None, None, None, FALSE)

\* the cache pipeline, over raw files of every length profile
Init == InitWith(LenConfigs)

Count(q, k) == Cardinality({i \in DOMAIN q : q[i] = k})

\* what a call leaves behind in the cache directory and the history
Effects(r) ==
    /\ files' = r.fs
    /\ writes' = [k \in FileKeys |-> writes[k] + Count(r.wrote, k)]
    /\ statsOf' = statsOf \cup r.stats

LoaderRet(m, split, r) ==
    [op |-> m, split |-> split, ok |-> r.ok, val |-> r.val,
     created |-> IF r.created THEN {m} ELSE {}, wrote |-> r.wrote,
     stats |-> r.stats, target_names |-> <<>>, args |-> <<>>,
     err |-> IF r.ok THEN "" ELSE r.err]

\* the sample list the split loader hands to a modality loader
Videos(split) == sorted(DOMAIN _get_gt(split).gt)

CallGetLldAudio(split) ==
    /\ _get_gt(split).ok
    /\ \E videos \in {Videos(split)} :
       \E r \in {_get_lld_audio(files, split, videos)} :
          Effects(r) /\ ret' = LoaderRet("audio", split, r)
    /\ UNCHANGED <<gtStore, rawLen, dss, item, tr>>

CallGetResnet18Face(split) ==
    /\ _get_gt(split).ok
    /\ \E videos \in {Videos(split)} :
       \E r \in {_get_resnet18_face(files, split, videos)} :
          Effects(r) /\ ret' = LoaderRet("face", split, r)
    /\ UNCHANGED <<gtStore, rawLen, dss, item, tr>>

CallGetBertText(split) ==
    /\ _get_gt(split).ok
    /\ \E videos \in {Videos(split)} :
       \E r \in {_get_bert_text(files, split, videos)} :
          Effects(r) /\ ret' = LoaderRet("text", split, r)
    /\ UNCHANGED <<gtStore, rawLen, dss, item, tr>>

LoadSplit(split, emb) ==
    /\ \E r \in {load_impressionv2_dataset_split(files, split, emb[1], emb[2], emb[3])} :
           /\ Effects(r)
           /\ ret' = [op |-> "split", split |-> split, ok |-> r.ok, val |-> r.ds,
                      created |-> r.created, wrote |-> r.wrote, stats |-> r.stats,
                      target_names |-> r.target_names, args |-> <<>>,
                      err |-> IF r.ok THEN "" ELSE r.err]
    /\ UNCHANGED <<gtStore, rawLen, dss, item, tr>>

LoadAll(srA, srF, srT, is_random, emb) ==
    /\ \E r \in {load_impressionv2_dataset_all(files, srA, srF, srT, is_random,
                                                emb[1], emb[2], emb[3])} :
           /\ Effects(r)
           /\ ret' = [op |-> "all", split |-> "all", ok |-> r.ok, val |-> <<>>,
                      created |-> {}, wrote |-> r.wrote, stats |-> r.stats,
                      target_names |-> r.target_names,
                      args |-> <<srA, srF, srT, is_random>>,
                      err |-> IF r.ok THEN "" ELSE r.err]
           /\ dss' = IF r.ok
                     THEN [ok |-> TRUE, sets |-> r.sets, target_names |-> r.target_names]
                     ELSE dss
    /\ UNCHANGED <<gtStore, rawLen, item, tr>>

\* TensorDatasetWithTransformer.__getitem__ / TensorDataset.__getitem__ on the
\* d-th dataset of the set
GetItem(d, index) ==
    /\ dss.ok
    /\ index \in 0..(Len(dss.sets[d].tensor_dataset.audio) - 1)
    /\ \E ds \in {dss.sets[d]} :
       \E sample \in {TensorItem(ds.tensor_dataset, index)} :
           IF ds.wrapped
           THEN \E o \in SamplerCall(ds.transform, sample) :
                   /\ dss' = [dss EXCEPT !.sets[d].transform = o.self]
                   /\ item' = [op |-> "getitem", d |-> d, index |-> index, n |-> 0,
                               ok |-> o.ok, err |-> o.err, out |-> o.out,
                               idx |-> o.idx, drew |-> o.drew,
                               before |-> NoItem.before]
           ELSE /\ dss' = dss
                /\ item' = [op |-> "getitem", d |-> d, index |-> index, n |-> 0,
                            ok |-> TRUE, err |-> "", out |-> sample, idx |-> NoIdx,
                            drew |-> FALSE, before |-> NoItem.before]
    /\ UNCHANGED <<gtStore, rawLen, files, writes, statsOf, ret, tr>>

Next ==
    \/ \E split \in Splits : CallGetLldAudio(split)
    \/ \E split \in Splits : CallGetResnet18Face(split)
    \/ \E split \in Splits : CallGetBertText(split)
    \/ \E split \in Splits : LoadSplit(split, Registered)
    \/ LoadAll(None, None, None, FALSE, Registered)
    \/ \E d \in 1..3, index \in 0..TRAIN_SIZE : GetItem(d, index)

Spec == Init /\ [][Next]_vars

----------------------------------------------------------------------------
(* The dataset-set loader and the datasets it returns, over label stores  *)
(* that agree or differ between the splits.                                *)

InitSet == InitWith(GtInputConfigs)

NextSet ==
    \/ \E sr \in SrTriples, is_random \in BOOLEAN :
          LoadAll(sr[1], sr[2], sr[3], is_random, Registered)
    \/ \E emb \in EmbChoices : LoadAll(None, None, None, FALSE, emb)
    \/ \E d \in 1..3, index \in 0..TRAIN_SIZE : GetItem(d, index)

SpecSet == InitSet /\ [][NextSet]_vars

----------------------------------------------------------------------------
(* A transform constructed and called directly.                            *)

InitSampler ==
    /\ gtStore = NominalGt
    /\ rawLen = NominalProfile
    /\ files = NoFiles
    /\ writes = [k \in FileKeys |-> 0]
    /\ statsOf = {}
    /\ ret = NoRet
    /\ dss = NoDss
    /\ item = NoItem
    /\ \E srA \in SrValues("audio"), srF \in SrValues("face"), srT \in SrValues("text"),
          is_random \in BOOLEAN :
          tr = SamplerTransform(srA, srF, srT, is_random)

\* the n-th call of the transform, on sample x
CallTransform(x) ==
    /\ item.n < MaxCalls
    /\ \E o \in SamplerCall(tr, x) :
          /\ tr' = o.self
          /\ item' = [op |-> "call", d |-> 0, index |-> 0, n |-> item.n + 1,
                      ok |-> o.ok, err |-> o.err, out |-> o.out, idx |-> o.idx,
                      drew |-> o.drew, before |-> tr]
    /\ UNCHANGED <<gtStore, rawLen, files, writes, statsOf, ret, dss>>

NextSampler == \E x \in SampleInputs : CallTransform(x)

SpecSampler == InitSampler /\ [][NextSampler]_vars

----------------------------------------------------------------------------
(* Properties of the cache pipeline (specification Spec).                  *)

\* a step of Spec that is a call `op` ("audio", "face", "text": a loader;
\* "split": the split loader) for `split`: the call's outcome is in ret, while a
\* dataset access leaves ret alone and changes item
CallStep(op, split) ==
    ret'.op = op /\ ret'.split = split /\ item' = item /\ dss' = dss

LoaderStep(m, split) == CallStep(m, split)

\* the array in a persisted artifact
Persisted(m, data) == IF m = "audio" THEN data.audio_norm ELSE data

\* what a loader returns of it: the audio loader ends in astype(np.float32)
Returned(m, data) == IF m = "audio" THEN astype_float32(data.audio_norm) ELSE data

\* the caching contract of one loader step, `returned` being the array a call
\* is to hand back for the artifact's data
CacheContract(m, split, returned(_, _)) ==
    LET k == <<split, m>>
    IN  /\ files[k].exists =>
            /\ ret'.ok /\ ret'.created = {} /\ ret'.wrote = <<>>
            /\ files' = files /\ writes' = writes
            /\ ret'.val = returned(m, files[k].data)
        /\ ~files[k].exists /\ ret'.ok =>
            /\ ret'.created = {m} /\ ret'.wrote = <<k>>
            /\ writes'[k] = writes[k] + 1
            /\ files'[k].exists
            /\ \A j \in FileKeys \ {k} : files'[j] = files[j]
            /\ ret'.val = returned(m, files'[k].data)
        /\ ~ret'.ok => files' = files /\ writes' = writes
        /\ ret'.ok => files'[k].exists

\* C1, as stated: every loader call on a persisted artifact returns the persisted
\* content with no recomputation and no write, and a call on an absent one
\* computes, persists and returns the array, so that the artifact exists after
\* every successful call.  The audio loader does not return the persisted array
\* itself.
C1_ReturnsPersistedContent ==
    [][\A m \in Modalities, split \in Splits :
          LoaderStep(m, split) => CacheContract(m, split, Persisted)]_vars

\* C1, amended: as above, the array returned being the persisted array for face
\* and text and the persisted normalised array converted to float32 for audio.
C1_ReturnsPersistedArrayAudioAsFloat32 ==
    [][\A m \in Modalities, split \in Splits :
          LoaderStep(m, split) => CacheContract(m, split, Returned)]_vars

\* an audio load has been answered from the persisted artifact
C1_Witness ==
    /\ ret.op = "audio" /\ ret.ok /\ ret.created = {}
    /\ files[<<ret.split, "audio">>].exists
    /\ ret.val = astype_float32(files[<<ret.split, "audio">>].data.audio_norm)

\* C2: mean and std are computed only over the train split's data and stored
\* only in the train audio artifact; the validation and test artifacts hold no
\* statistics and are normalised with exactly the statistics the train artifact
\* stores.
C2_StatisticsOnlyFromTrain ==
    /\ statsOf \subseteq {"train"}
    /\ files[<<"train", "audio">>].exists =>
          DOMAIN files[<<"train", "audio">>].data = {"audio_norm", "mean", "std"}
    /\ \A split \in {"valid", "test"} :
          files[<<split, "audio">>].exists =>
             /\ DOMAIN files[<<split, "audio">>].data = {"audio_norm"}
             /\ files[<<"train", "audio">>].exists
             /\ \A i \in DOMAIN files[<<split, "audio">>].data.audio_norm :
                   \A t \in DOMAIN files[<<split, "audio">>].data.audio_norm[i] :
                      LET e == files[<<split, "audio">>].data.audio_norm[i][t]
                      IN  /\ e.mean = files[<<"train", "audio">>].data.mean
                          /\ e.std = files[<<"train", "audio">>].data.std

\* the validation audio has been normalised and persisted
C2_Witness ==
    /\ files[<<"valid", "audio">>].exists
    /\ ret.op = "audio" /\ ret.split = "valid" /\ ret.created = {"audio"}

\* C3: a validation or test audio load that has to normalise while the train
\* audio artifact has never been persisted fails, computes no statistics and
\* leaves the cache directory as it was.
C3_MissingTrainStatisticsIsFatal ==
    [][\A split \in {"valid", "test"} :
          /\ CallStep("audio", split) \/ CallStep("split", split)
          /\ ~files[<<split, "audio">>].exists
          /\ ~files[<<"train", "audio">>].exists
          => /\ ~ret'.ok
             /\ files' = files /\ writes' = writes /\ statsOf' = statsOf]_vars

\* a validation or test audio load has failed for want of the train artifact
C3_Witness ==
    /\ ret.op = "audio" /\ ret.split \in {"valid", "test"} /\ ~ret.ok
    /\ ~files[<<"train", "audio">>].exists
    /\ rawLen["audio"][<<ret.split, StemOf(1)>>] <= AUDIO_LEN

\* C4: a persisted artifact is never deleted or changed by any operation, and
\* each artifact is written at most once, by a call that found it absent.
C4_ArtifactsWrittenOnce ==
    [][\A k \in FileKeys :
          /\ files[k].exists => files'[k] = files[k] /\ writes'[k] = writes[k]
          /\ writes'[k] <= 1
          /\ files'[k].exists <=> writes'[k] = 1]_vars

\* every artifact is persisted, and a dataset has since been accessed
C4_Witness ==
    /\ \A k \in FileKeys : files[k].exists /\ writes[k] = 1
    /\ dss.ok /\ item.op = "getitem" /\ item.ok

\* the i-th sample key of a split in lexicographic order: "a" < "a-a" < ...
KeyAt(i) == StemOf(i)

\* every entry at index i of dataset ds of `split` is sample KeyAt(i)'s: each
\* modality's first time step is that sample's raw first step, and every label
\* was stored under that sample's file name
AlignedDs(split, ds) ==
    /\ Len(ds.audio) = SET_SIZE[split]
    /\ \A i \in 1..Len(ds.audio) :
          /\ ds.audio[i][1].f32.x = RawValue("audio", split, KeyAt(i), 1)
          /\ ds.face[i][1] = RawValue("face", split, KeyAt(i), 1)
          /\ ds.text[i][1] = RawValue("text", split, KeyAt(i), 1)
          /\ ds.label[i] # <<>>
          /\ \A t \in DOMAIN ds.label[i] :
                ds.label[i][t][1] = split /\ Stem(ds.label[i][t][3]) = KeyAt(i)

SplitAt(d) == <<"train", "valid", "test">>[d]

\* C7: in every split dataset produced, the audio, face, text and label entries
\* at index i all belong to the i-th sample key in lexicographic order, whether
\* each modality was freshly computed or loaded from its artifact.
C7_EntriesAligned ==
    /\ ret.op = "split" /\ ret.ok => AlignedDs(ret.split, ret.val)
    /\ dss.ok => \A d \in 1..3 : AlignedDs(SplitAt(d), dss.sets[d].tensor_dataset)

\* a train dataset has been assembled from a mix of cached and fresh modalities
C7_Witness ==
    /\ ret.op = "split" /\ ret.ok /\ ret.split = "train"
    /\ ret.created # {} /\ ret.created # Modalities

----------------------------------------------------------------------------
(* Properties of the dataset-set loader (specification SpecSet).           *)

\* a target length once the transform's first call has fixed it
Resolved(sr, m) == IF sr = None THEN FULL_LEN[m] ELSE sr

SameTargets(t, srA, srF, srT) ==
    /\ Resolved(t.srA, "audio") = Resolved(srA, "audio")
    /\ Resolved(t.srF, "face") = Resolved(srF, "face")
    /\ Resolved(t.srT, "text") = Resolved(srT, "text")

\* C5: when the set loader wraps the splits, validation and test are wrapped in
\* deterministic mode with the three target lengths of train, whatever is_random
\* is; only train takes the requested flag, and no access to validation or test
\* draws random indices.
C5_ValidationAndTestDeterministic ==
    /\ ret.op = "all" /\ ret.ok =>
          LET wrap == ret.args[1] # None \/ ret.args[2] # None \/ ret.args[3] # None
          IN  /\ dss.ok
              /\ \A d \in 1..3 :
                    /\ dss.sets[d].wrapped = wrap
                    /\ wrap => SameTargets(dss.sets[d].transform,
                                           ret.args[1], ret.args[2], ret.args[3])
              /\ wrap => dss.sets[1].transform.is_random = ret.args[4]
    /\ dss.ok => \A d \in {2, 3} : ~dss.sets[d].transform.is_random
    /\ item.op = "getitem" /\ item.d \in {2, 3} => ~item.drew

\* train is wrapped in randomized mode and a validation item has been resampled
C5_Witness ==
    /\ dss.ok /\ dss.sets[1].wrapped /\ dss.sets[1].transform.is_random
    /\ ret.op = "all" /\ ret.ok /\ ret.args[4]
    /\ item.op = "getitem" /\ item.d = 2 /\ item.ok /\ item.idx # NoIdx

\* the label names of a split's store, the interview column left out
ExpectedNames(split) ==
    SelectSeq(gtStore[split].targets, LAMBDA n : n # "interview")

\* C6: the set loader returns only if the label-name lists of train, validation
\* and test are identical, and then returns that list; if any two differ the
\* call fails and no dataset-set is returned.
C6_LabelNamesIdentical ==
    LET same == /\ ExpectedNames("train") = ExpectedNames("valid")
                /\ ExpectedNames("train") = ExpectedNames("test")
    IN  /\ ret.op = "all" /\ ret.ok =>
              same /\ ret.target_names = ExpectedNames("train")
        /\ dss.ok => same /\ dss.target_names = ExpectedNames("train")
        /\ ~same => ~dss.ok /\ (ret.op = "all" => ~ret.ok /\ ret.target_names = <<>>)

\* the set loader has failed on stores whose train and validation names agree
\* and whose test names differ
C6_Witness ==
    /\ ret.op = "all" /\ ~ret.ok /\ ~dss.ok
    /\ ExpectedNames("train") = ExpectedNames("valid")
    /\ ExpectedNames("train") # ExpectedNames("test")

\* the time steps of a persisted array's sample, as scalars
Steps(m, sample) ==
    IF m = "audio" THEN [t \in DOMAIN sample |-> sample[t].x] ELSE sample

\* C8, as stated: for audio, face and text alike, a freshly computed stacked
\* array holds, for every sample in input order, the sample's raw sequence
\* followed by zeros up to exactly the modality's full length.  The text array is
\* not padded.
C8_PaddedToFullLength ==
    \A split \in Splits, m \in Modalities :
       files[<<split, m>>].exists =>
          LET arr == Persisted(m, files[<<split, m>>].data)
          IN  \A i \in DOMAIN arr :
                 LET raw == RawSeq(m, split, KeyAt(i))
                 IN  /\ Len(arr[i]) = FULL_LEN[m]
                     /\ Steps(m, arr[i]) = raw \o [t \in 1..(FULL_LEN[m] - Len(raw)) |-> 0]

----------------------------------------------------------------------------
(* Properties of the resampling transform (specification SpecSampler).     *)

Exceeds(t) == t.srA > AUDIO_LEN \/ t.srF > FACE_LEN \/ t.srT > TEXT_LEN

\* C9: every call of the transform, the first and the later ones, checks the
\* three target lengths against the full lengths; with a target length above
\* its full length the call ends in an assertion error and produces no index
\* array and no sample.
C9_TargetLengthCheckedAtEveryCall ==
    item.op = "call" /\ Exceeds(tr) =>
       /\ ~item.ok /\ ~item.drew
       /\ item.err \in {"AssertionError: shape", "AssertionError: target length"}
       /\ item.out = NoSample /\ item.idx = NoIdx

\* a second call with a target length above the full length has been refused
C9_Witness ==
    /\ item.op = "call" /\ item.n = 2 /\ Exceeds(tr)
    /\ item.err = "AssertionError: target length"

Ascending(q) == \A i, j \in DOMAIN q : i < j => q[i] < q[j]

\* C10, as stated: in randomized mode every call whose target lengths pass the
\* validation, a target left unset and fixed to the full length included, yields
\* for each modality exactly target-length indices, distinct and ascending, from
\* the index range without its last index.  With a target equal to the full
\* length the draw raises a ValueError.
C10_RandomIndicesForEveryValidTarget ==
    item.op = "call" /\ tr.is_random
    /\ item.err \notin {"AssertionError: shape", "AssertionError: target length"}
    => /\ item.ok
       /\ Len(item.idx.a) = tr.srA /\ Len(item.idx.f) = tr.srF
       /\ Len(item.idx.t) = tr.srT
       /\ Ascending(item.idx.a) /\ Ascending(item.idx.f) /\ Ascending(item.idx.t)
       /\ \A i \in DOMAIN item.idx.a : item.idx.a[i] \in 0..(AUDIO_LEN - 2)
       /\ \A i \in DOMAIN item.idx.f : item.idx.f[i] \in 0..(FACE_LEN - 2)
       /\ \A i \in DOMAIN item.idx.t : item.idx.t[i] \in 0..(TEXT_LEN - 2)

\* p / q rounded to the nearest integer, a tie to the even one (round())
Round(p, q) ==
    LET f == p \div q
        r == p % q
    IN  IF 2 * r < q THEN f
        ELSE IF 2 * r > q THEN f + 1
        ELSE IF f % 2 = 0 THEN f ELSE f + 1

\* idx holds the n points interpolated between 0 and L - 1, both included, each
\* rounded to the nearest index
RoundedLinspace(idx, L, n) ==
    /\ Len(idx) = n
    /\ idx[1] = 0 /\ idx[n] = L - 1
    /\ n > 1 => \A k \in 1..n : idx[k] = Round((k - 1) * (L - 1), n - 1)

\* C11, as stated: in deterministic mode, for every target length n from 1 to the
\* full length L, the selected indices are the n evenly spaced points between 0
\* and L - 1 rounded to the nearest index: the first is 0, the last is L - 1, the
\* k-th is round(k*(L-1)/(n-1)).  The conversion to int cuts each point to its
\* integer part instead, and a single point is 0, not L - 1.
C11_DeterministicIndicesRounded ==
    item.op = "call" /\ item.ok /\ ~tr.is_random =>
       /\ RoundedLinspace(item.idx.a, AUDIO_LEN, tr.srA)
       /\ RoundedLinspace(item.idx.f, FACE_LEN, tr.srF)
       /\ RoundedLinspace(item.idx.t, TEXT_LEN, tr.srT)

\* what a call makes of one stored target length: an unset one becomes the full
\* length unless the sample fails the shape assertions, which come first and end
\* the call; a set one stays
TargetAfter(old, full, shape_error) ==
    IF old # None THEN old ELSE IF shape_error THEN None ELSE full

----------------------------------------------------------------------------
(* The set loader over the cache pipeline (specification Spec).            *)

\* C13: from every cache state the pipeline's operations can reach, the empty
\* one included, no call of the set loader ends in the missing-train-statistics
\* failure: a train audio artifact, whenever it exists, holds the mean and the
\* std, and the train split is loaded before validation and test.
C13_SetLoaderNeverMissesTrainStatistics ==
    /\ files[<<"train", "audio">>].exists =>
          {"mean", "std"} \subseteq DOMAIN files[<<"train", "audio">>].data
    /\ ret.op = "all" => ret.err \notin MissingTrainStatistics

\* a call of the set loader has computed the train statistics and normalised
\* the validation and the test audio with them
C13_Witness ==
    /\ ret.op = "all" /\ ret.ok /\ ret.stats = {"train"}
    /\ \A split \in Splits : \E i \in DOMAIN ret.wrote : ret.wrote[i] = <<split, "audio">>

====
